---- MODULE Spec2Model ----
(***************************************************************************)
(* DiffGuard (src/src/index.js): the diff filter filterExcludedFiles, the   *)
(* score extractor extractScore and the driver run.                        *)
(*                                                                         *)
(* A JavaScript string is modelled as a sequence of one-character strings, *)
(* so that split, endsWith, the path regexes and the glob-to-regex         *)
(* conversion are computed character by character, as the code does.       *)
(***************************************************************************)
EXTENDS Integers, Sequences, FiniteSets, TLC

VARIABLES diff, excludePatterns, pc, result, again

\* The driver run: its position, the action's inputs, the labels the pull
\* request carries, what the model API answered, the score and the threshold,
\* the warning prefix, the failure signal, the comments posted, the diff as
\* it was fetched, the diff sent to the model API and the steps taken so far.
VARIABLES step, inputs, labels, analysis, score, minimumScore, warningMsg,
          failed, comments, fetched, sent, trace

filterVars == <<diff, excludePatterns, pc, result, again>>

runVars == <<step, inputs, labels, analysis, score, minimumScore, warningMsg,
             failed, comments, fetched, sent, trace>>

vars == <<filterVars, runVars>>

-----------------------------------------------------------------------------
(* String primitives of the JavaScript runtime used by the filter.         *)

\* The section marker the diff is split on: 'diff --git'.
MARKER ==
    <<"d","i","f","f"," ","-","-","g","i","t">>

\* The minimal valid diff returned when the filtered diff is empty.
PLACEHOLDER ==
    <<"d","i","f","f"," ","-","-","g","i","t"," ","a","/","R","E","A","D","M","E",".",
      "m","d"," ","b","/","R","E","A","D","M","E",".","m","d","\n","i","n","d","e","x",
      " ","1","2","3","4","5","6","7",".",".","a","b","c","d","e","f","g"," ","1","0",
      "0","6","4","4","\n","-","-","-"," ","a","/","R","E","A","D","M","E",".","m","d",
      "\n","+","+","+"," ","b","/","R","E","A","D","M","E",".","m","d","\n","@","@"," ",
      "-","1",",","1"," ","+","1",",","1"," ","@","@","\n","-","#"," ","N","o"," ","c",
      "h","a","n","g","e","s"," ","t","o"," ","a","n","a","l","y","z","e","\n","+","#",
      " ","N","o"," ","c","h","a","n","g","e","s"," ","t","o"," ","a","n","a","l","y",
      "z","e"," ","a","f","t","e","r"," ","e","x","c","l","u","s","i","o","n","s">>

\* The regex class \s, restricted to the whitespace of the model's alphabet.
IsSpace(c) == c \in {" ", "\n", "\t"}

MinOf(S) == CHOOSE i \in S : \A j \in S : i <= j

StartsAt(s, sub, i) ==
    /\ i >= 1
    /\ i + Len(sub) - 1 <= Len(s)
    /\ SubSeq(s, i, i + Len(sub) - 1) = sub

\* String.prototype.indexOf for a non-empty sub, 1-based; 0 when sub does
\* not occur.
IndexOf(s, sub) ==
    LET hits == {i \in 1..(Len(s) - Len(sub) + 1) :
                    s[i] = sub[1] /\ StartsAt(s, sub, i)}
    IN  IF hits = {} THEN 0 ELSE MinOf(hits)

\* String.prototype.split with a non-empty separator: the pieces between the
\* successive leftmost occurrences of sep; <<s>> when sep does not occur.
RECURSIVE split(_, _)
split(s, sep) ==
    LET i == IndexOf(s, sep)
    IN  IF i = 0
        THEN <<s>>
        ELSE <<SubSeq(s, 1, i - 1)>> \o split(SubSeq(s, i + Len(sep), Len(s)), sep)

\* A variant: the empty suffix ends no string.
endsWith_NonEmpty(s, suffix) ==
    /\ suffix # <<>>
    /\ Len(suffix) <= Len(s)
    /\ SubSeq(s, Len(s) - Len(suffix) + 1, Len(s)) = suffix

\* String.prototype.endsWith.
endsWith(s, suffix) ==
    /\ Len(suffix) <= Len(s)
    /\ SubSeq(s, Len(s) - Len(suffix) + 1, Len(s)) = suffix

\* String.prototype.replace(/c/g, r) for a one-character pattern c.
RECURSIVE replaceAll(_, _, _)
replaceAll(s, c, r) ==
    IF s = <<>>
    THEN <<>>
    ELSE (IF Head(s) = c THEN r ELSE <<Head(s)>>) \o replaceAll(Tail(s), c, r)

RECURSIVE concat(_)
concat(ss) == IF ss = <<>> THEN <<>> ELSE Head(ss) \o concat(Tail(ss))

-----------------------------------------------------------------------------
(* Path extraction: section.match(/a\/([^\s]+)/) and /b\/([^\s]+)/.        *)

\* The end of the greedy run [^\s]+ that starts at position i.
RECURSIVE runEnd(_, _)
runEnd(s, i) ==
    IF i < Len(s) /\ ~IsSpace(s[i + 1]) THEN runEnd(s, i + 1) ELSE i

\* section.match(/<letter>\/([^\s]+)/): the leftmost position where letter,
\* '/' and at least one non-whitespace character follow each other; the
\* capture group is the whole non-whitespace run. found = FALSE models null.
filePathMatch(section, letter) ==
    LET hits == {i \in 1..(Len(section) - 2) :
                    /\ section[i] = letter
                    /\ section[i + 1] = "/"
                    /\ ~IsSpace(section[i + 2])}
    IN  IF hits = {}
        THEN [found |-> FALSE, path |-> <<>>]
        ELSE LET i == MinOf(hits)
             IN  [found |-> TRUE, path |-> SubSeq(section, i + 2, runEnd(section, i + 2))]

filePathMatchA(section) == filePathMatch(section, "a")
filePathMatchB(section) == filePathMatch(section, "b")

\* The variant that prefers the b/ path.
filePathOf_PreferB(matchA, matchB) ==
    IF matchB.found THEN matchB.path ELSE matchA.path

\* const filePath = filePathMatchA ? filePathMatchA[1] : filePathMatchB[1]
filePathOf(matchA, matchB) ==
    IF matchA.found THEN matchA.path ELSE matchB.path

\* filePath.split('/').pop()
fileName(filePath) ==
    LET parts == split(filePath, <<"/">>) IN parts[Len(parts)]

-----------------------------------------------------------------------------
(* Glob-to-regex conversion and the regular expression it is compiled to.  *)

\* pattern.replace(/\./g, '\\.').replace(/\*/g, '.*').replace(/\?/g, '.')
regexPattern(pattern) ==
    replaceAll(replaceAll(replaceAll(pattern, ".", <<"\\", ".">>),
                          "*", <<".", "*">>),
               "?", <<".">>)

\* The source handed to the RegExp constructor: `^${regexPattern}$`.
regexSource(pattern) == <<"^">> \o regexPattern(pattern) \o <<"$">>

Term(t, c, q) == [t |-> t, c |-> c, q |-> q]

\* new RegExp(src), for the sources regexSource produces over the model's
\* pattern alphabet: alternatives separated by '|', each a sequence of terms
\* (the assertions ^ and $, the escaped literal \c, the wildcard '.', a literal
\* character), an atom optionally followed by one quantifier '*' or '+'.
\* ok = FALSE models the SyntaxError the constructor throws: a quantifier
\* with nothing to repeat, a '\' at the end of the pattern, and a '(' that is
\* never closed (the pattern alphabet holds no ')').
RECURSIVE parseRegExp(_, _, _, _)
parseRegExp(src, i, alts, cur) ==
    IF i > Len(src)
    THEN [ok |-> TRUE, alts |-> Append(alts, cur)]
    ELSE LET c == src[i] IN
         CASE c = "|" -> parseRegExp(src, i + 1, Append(alts, cur), <<>>)
           [] c = "^" -> parseRegExp(src, i + 1, alts, Append(cur, Term("bol", "", "1")))
           [] c = "$" -> parseRegExp(src, i + 1, alts, Append(cur, Term("eol", "", "1")))
           [] c = "\\" ->
                IF i = Len(src)
                THEN [ok |-> FALSE, alts |-> <<>>]
                ELSE parseRegExp(src, i + 2, alts, Append(cur, Term("lit", src[i + 1], "1")))
           [] c \in {"*", "+"} ->
                IF \/ cur = <<>>
                   \/ cur[Len(cur)].t \in {"bol", "eol"}
                   \/ cur[Len(cur)].q # "1"
                THEN [ok |-> FALSE, alts |-> <<>>]
                ELSE parseRegExp(src, i + 1, alts,
                                 [cur EXCEPT ![Len(cur)].q = c])
           [] c = "(" -> [ok |-> FALSE, alts |-> <<>>]
           [] c = "." -> parseRegExp(src, i + 1, alts, Append(cur, Term("any", "", "1")))
           [] OTHER -> parseRegExp(src, i + 1, alts, Append(cur, Term("lit", c, "1")))

RegExp(src) == parseRegExp(src, 1, <<>>, <<>>)

\* Whether one character satisfies an atom ('.' matches all but line ends).
atomMatches(term, ch) ==
    IF term.t = "any" THEN ch # "\n" ELSE ch = term.c

\* Whether terms[k..] match s starting at position i (backtracking search;
\* the match may end anywhere, the assertions pin the ends).
RECURSIVE matchTerms(_, _, _, _)
matchTerms(terms, k, s, i) ==
    IF k > Len(terms)
    THEN TRUE
    ELSE LET term == terms[k] IN
         CASE term.t = "bol" -> i = 1 /\ matchTerms(terms, k + 1, s, i)
           [] term.t = "eol" -> i = Len(s) + 1 /\ matchTerms(terms, k + 1, s, i)
           [] term.q = "1" ->
                /\ i <= Len(s)
                /\ atomMatches(term, s[i])
                /\ matchTerms(terms, k + 1, s, i + 1)
           [] OTHER ->
                \E j \in (IF term.q = "+" THEN i + 1 ELSE i)..(Len(s) + 1) :
                    /\ \A m \in i..(j - 1) : atomMatches(term, s[m])
                    /\ matchTerms(terms, k + 1, s, j)

\* regex.test(s): some alternative matches starting at some position.
test(regex, s) ==
    \E a \in 1..Len(regex.alts) :
        \E i \in 1..(Len(s) + 1) : matchTerms(regex.alts[a], 1, s, i)

-----------------------------------------------------------------------------
(* filterExcludedFiles. The core.debug / core.info / core.warning lines that *)
(* tell what the loop did are kept as a log of events:                     *)
(*   <<"default", i>>            section i has no path, included by default *)
(*   <<"check", i, pattern>>     'Checking against pattern'                 *)
(*   <<"warning", i, pattern>>   'Invalid regex pattern'                    *)
(*   <<"exclude", i, path, pattern>>  'Excluding file from analysis'        *)
(*   <<"include", i, path>>      'Including file in analysis'               *)
(*   <<"placeholder">>           'All files were excluded, ...'             *)
(* where i is the index of the section in fileSections (0-based, as in the *)
(* code's messages).                                                       *)

\* Rule 1: filePath.endsWith(pattern) || filePath === pattern
directMatch(filePath, pattern) == endsWith(filePath, pattern) \/ filePath = pattern

\* Rule 2: fileName === pattern
basenameMatch(filePath, pattern) == fileName(filePath) = pattern

\* The variant without the catch: the constructor's SyntaxError escapes.
regexMatch_NoCatch(filePath, pattern) ==
    LET regex == RegExp(regexSource(pattern))
    IN  IF ~regex.ok THEN "throw"
        ELSE IF test(regex, filePath) THEN "match"
        ELSE "nomatch"

\* Rule 3, the try block and its catch: "match" / "nomatch" when the RegExp
\* compiles, "warning" when the constructor throws and the catch logs it.
\* ("throw" is the outcome of an exception that leaves the loop uncaught.)
regexMatch(filePath, pattern) ==
    LET regex == RegExp(regexSource(pattern))
    IN  IF ~regex.ok THEN "warning"
        ELSE IF test(regex, filePath) THEN "match"
        ELSE "nomatch"

\* for (const pattern of excludePatterns) { ... }, from the k-th pattern on.
RECURSIVE patternLoop(_, _, _, _, _)
patternLoop(filePath, patterns, k, i, log) ==
    IF k > Len(patterns)
    THEN [shouldExclude |-> FALSE, matchedPattern |-> <<>>, log |-> log, threw |-> FALSE]
    ELSE LET pattern == patterns[k]
             log1 == Append(log, <<"check", i, pattern>>)
         IN  IF directMatch(filePath, pattern)
             THEN [shouldExclude |-> TRUE, matchedPattern |-> pattern,
                   log |-> log1, threw |-> FALSE]
             ELSE IF basenameMatch(filePath, pattern)
             THEN [shouldExclude |-> TRUE, matchedPattern |-> pattern,
                   log |-> log1, threw |-> FALSE]
             ELSE LET r == regexMatch(filePath, pattern) IN
                  CASE r = "match" ->
                         [shouldExclude |-> TRUE, matchedPattern |-> pattern,
                          log |-> log1, threw |-> FALSE]
                    [] r = "warning" ->
                         patternLoop(filePath, patterns, k + 1, i,
                                     Append(log1, <<"warning", i, pattern>>))
                    [] r = "throw" ->
                         [shouldExclude |-> FALSE, matchedPattern |-> <<>>,
                          log |-> log1, threw |-> TRUE]
                    [] OTHER -> patternLoop(filePath, patterns, k + 1, i, log1)

\* The variant that drops a section without a path instead of keeping it.
keepByDefault_Drop(acc, section, i) ==
    [acc EXCEPT !.log = Append(@, <<"default", i>>)]

\* The no-path branch: filteredSections.push(section); continue
keepByDefault(acc, section, i) ==
    [acc EXCEPT !.filteredSections = Append(@, section),
                !.log = Append(@, <<"default", i>>)]

\* if (!shouldExclude) filteredSections.push(section)
\* else excludedFiles.push(filePath)
decide(acc, section, i, filePath, r) ==
    IF ~r.shouldExclude
    THEN [acc EXCEPT !.filteredSections = Append(@, section),
                     !.log = Append(r.log, <<"include", i, filePath>>)]
    ELSE [acc EXCEPT !.excludedFiles = Append(@, filePath),
                     !.log = Append(r.log, <<"exclude", i, filePath, r.matchedPattern>>)]

\* for (let i = 1; i < fileSections.length; i++) { ... }; n is the 1-based
\* position of section i = n - 1. An exception ends the loop and the call.
RECURSIVE sectionLoop(_, _, _, _)
sectionLoop(fileSections, patterns, n, acc) ==
    IF n > Len(fileSections) \/ acc.threw
    THEN acc
    ELSE LET section == fileSections[n]
             i == n - 1
             matchA == filePathMatchA(section)
             matchB == filePathMatchB(section)
         IN  IF ~matchA.found /\ ~matchB.found
             THEN sectionLoop(fileSections, patterns, n + 1,
                              keepByDefault(acc, section, i))
             ELSE LET filePath == filePathOf(matchA, matchB)
                      r == patternLoop(filePath, patterns, 1, i, acc.log)
                  IN  IF r.threw
                      THEN [acc EXCEPT !.log = r.log, !.threw = TRUE]
                      ELSE sectionLoop(fileSections, patterns, n + 1,
                                       decide(acc, section, i, filePath, r))

\* .map((section) => `diff --git${section}`)
RECURSIVE prependMarker(_)
prependMarker(sections) ==
    IF sections = <<>>
    THEN <<>>
    ELSE <<MARKER \o Head(sections)>> \o prependMarker(Tail(sections))

\* The variant that puts the marker before the first segment too.
reconstruct_AllPrefixed(filteredSections) ==
    concat(prependMarker(filteredSections))

\* The variant that joins the segments without the marker.
reconstruct_NoMarker(filteredSections) ==
    filteredSections[1] \o concat(Tail(filteredSections))

\* filteredSections[0] + filteredSections.slice(1).map(s => `diff --git${s}`).join('')
reconstruct(filteredSections) ==
    filteredSections[1] \o concat(prependMarker(Tail(filteredSections)))

\* The variant that returns the filtered diff even when it is empty.
substitute_Never(filteredDiff) == filteredDiff

\* if (filteredDiff.length === 0) return <the minimal valid diff>
substitute(filteredDiff) ==
    IF Len(filteredDiff) = 0 THEN PLACEHOLDER ELSE filteredDiff

\* The body of filterExcludedFiles after the early return. The value of a
\* call: out is the returned string; threw tells that the call ended by an
\* exception instead (out is then meaningless).
filterBody(d, patterns) ==
    LET fileSections == split(d, MARKER)
        r == sectionLoop(fileSections, patterns, 2,
               [filteredSections |-> <<fileSections[1]>>,
                excludedFiles |-> <<>>, log |-> <<>>, threw |-> FALSE])
        filteredDiff == reconstruct(r.filteredSections)
    IN  IF r.threw
        THEN [out |-> <<>>, threw |-> TRUE, log |-> r.log,
              excludedFiles |-> r.excludedFiles]
        ELSE [out |-> substitute(filteredDiff), threw |-> FALSE,
              log |-> IF Len(filteredDiff) = 0
                      THEN Append(r.log, <<"placeholder">>)
                      ELSE r.log,
              excludedFiles |-> r.excludedFiles]

\* The variant without the early return for an empty pattern list.
filterExcludedFiles_NoEarlyReturn(d, patterns) == filterBody(d, patterns)

\* if (!excludePatterns || excludePatterns.length === 0) return diff
filterExcludedFiles(d, patterns) ==
    IF Len(patterns) = 0
    THEN [out |-> d, threw |-> FALSE, log |-> <<>>, excludedFiles |-> <<>>]
    ELSE filterBody(d, patterns)

-----------------------------------------------------------------------------
(* The inputs: diffs and pattern lists drawn from small pools.             *)

\* Largest number of 'diff --git' sections of an input diff.
MaxSections == 2

\* Largest number of patterns of an input pattern list.
MaxPatterns == 2

\* An ordinary section: path d/package-lock.json.
SecPkgLock ==
    <<" ","a","/","d","/","p","a","c","k","a","g","e","-","l","o","c","k",".","j","s",
      "o","n"," ","b","/","d","/","p","a","c","k","a","g","e","-","l","o","c","k",".",
      "j","s","o","n","\n">>

\* A section with neither a/<path> nor b/<path>.
SecNoPath ==
    <<"\n","+","t","e","x","t","\n">>

\* The first 'a/' is followed by a space; the second gives path x.lock.
SecBareA ==
    <<" ","a","/"," ","a","/","x",".","l","o","c","k"," ","b","/"," ","a","/","x",".",
      "l","o","c","k","\n">>

\* Only b/ in the header and an a/ in the body: path aa.
SecBodyA ==
    <<" ","b","/","q",".","l","o","c","k","\n","+","a","/","a","a","\n">>

\* No a/ at all: path README.md, from b/.
SecOnlyB ==
    <<" ","b","/","R","E","A","D","M","E",".","m","d","\n">>

Sections == {SecPkgLock, SecNoPath, SecBareA, SecBodyA, SecOnlyB}

\* Text before the first marker (it holds a path, which is never matched).
PreText ==
    <<"a","/","a","a","\n">>

PreTexts == {<<>>, PreText}

\* The empty pattern (exclude_files 'a,,b' gives one).
PatEmpty == <<>>

\* 'package-lock.json'
PatPkgLock ==
    <<"p","a","c","k","a","g","e","-","l","o","c","k",".","j","s","o","n">>

\* '*.lock'
PatStarLock ==
    <<"*",".","l","o","c","k">>

\* 'a+'
PatPlus ==
    <<"a","+">>

\* 'x|y'
PatBar ==
    <<"x","|","y">>

\* '(' : its RegExp does not compile.
PatParen ==
    <<"(">>

\* 'READM?.md' : matches the placeholder's path.
PatReadme ==
    <<"R","E","A","D","M","?",".","m","d">>

Patterns == {PatEmpty, PatPkgLock, PatStarLock, PatPlus, PatBar, PatParen, PatReadme}

\* The sequences of at most n distinct elements of S: a diff holds a file
\* once, and a pattern is listed once.
SeqsUpTo(S, n) ==
    UNION {{f \in [1..k -> S] : \A i, j \in 1..k : i # j => f[i] # f[j]} : k \in 0..n}

Diffs ==
    {pre \o concat(prependMarker(ss)) : pre \in PreTexts, ss \in SeqsUpTo(Sections, MaxSections)}

PatternLists == SeqsUpTo(Patterns, MaxPatterns)

-----------------------------------------------------------------------------
(* The state machine: a caller holds a diff and a pattern list, calls the  *)
(* filter, and calls it again on what the first call returned.             *)

NoResult == [out |-> <<>>, threw |-> FALSE, log |-> <<>>, excludedFiles |-> <<>>]

\* What a run holds before it has read anything.
NoInputs ==
    [open_router_key |-> "", model_id |-> "", github_token |-> "",
     review_label |-> "", exclude_files |-> <<>>, minimum_score |-> <<>>]

\* The driver is not part of this state machine.
RunIdle ==
    /\ step = "idle"
    /\ inputs = NoInputs
    /\ labels = <<>>
    /\ analysis = <<>>
    /\ score = [isNull |-> TRUE, value |-> 0]
    /\ minimumScore = [nan |-> TRUE, value |-> 0]
    /\ warningMsg = [blocked |-> FALSE, score |-> 0, minimum |-> 0]
    /\ failed = FALSE
    /\ comments = <<>>
    /\ fetched = <<>>
    /\ sent = <<>>
    /\ trace = <<>>

Init ==
    /\ diff \in Diffs
    /\ excludePatterns \in PatternLists
    /\ pc = "start"
    /\ result = NoResult
    /\ again = NoResult
    /\ RunIdle

\* diff = filterExcludedFiles(diff, excludePatterns)
Filter ==
    /\ pc = "start"
    /\ result' = filterExcludedFiles(diff, excludePatterns)
    /\ pc' = "filtered"
    /\ UNCHANGED <<diff, excludePatterns, again, runVars>>

\* filterExcludedFiles(<the first call's value>, excludePatterns)
FilterAgain ==
    /\ pc = "filtered"
    /\ ~result.threw
    /\ again' = filterExcludedFiles(result.out, excludePatterns)
    /\ pc' = "refiltered"
    /\ UNCHANGED <<diff, excludePatterns, result, runVars>>

Next == Filter \/ FilterAgain

Spec == Init /\ [][Next]_vars

-----------------------------------------------------------------------------
(* extractScore. The analysis is a string as above; the character U+2B50   *)
(* (the star of a rating) is written as the one token STAR.                *)

STAR == "STAR"

Digits == {"0", "1", "2", "3", "4", "5", "6", "7", "8", "9"}

IsDigit(c) == c \in Digits

\* What '.' of a regular expression does not match.
IsLineTerminator(c) == c \in {"\n", "\r"}

DigitValue(c) ==
    CASE c = "0" -> 0 [] c = "1" -> 1 [] c = "2" -> 2 [] c = "3" -> 3
      [] c = "4" -> 4 [] c = "5" -> 5 [] c = "6" -> 6 [] c = "7" -> 7
      [] c = "8" -> 8 [] c = "9" -> 9

\* Case folding of the /i flag, for the letters of 'Score'.
toLower(c) ==
    CASE c = "S" -> "s" [] c = "C" -> "c" [] c = "O" -> "o"
      [] c = "R" -> "r" [] c = "E" -> "e" [] OTHER -> c

\* The word 'Score', in any letter case, starts at position i.
scoreWordAt(s, i) ==
    /\ i + 4 <= Len(s)
    /\ [k \in 1..5 |-> toLower(s[i + k - 1])] = <<"s", "c", "o", "r", "e">>

\* The lazy '.*?' followed by a digit: the position of the first digit at or
\* after position from that no line terminator separates from it; 0 if none.
firstDigitOnLine(s, from) ==
    LET hits == {j \in from..Len(s) :
                    /\ IsDigit(s[j])
                    /\ \A h \in from..(j - 1) : ~IsLineTerminator(s[h])}
    IN  IF hits = {} THEN 0 ELSE MinOf(hits)

\* A variant: the digits from position j on, however many.
digitRun_Unbounded(s, j) ==
    SubSeq(s, j, CHOOSE e \in j..Len(s) :
                    /\ \A h \in j..e : IsDigit(s[h])
                    /\ (e = Len(s) \/ ~IsDigit(s[e + 1])))

\* The greedy [0-9]{1,3}: the digits from position j on, three at most.
digitRun(s, j) ==
    IF j + 1 <= Len(s) /\ IsDigit(s[j + 1])
    THEN IF j + 2 <= Len(s) /\ IsDigit(s[j + 2])
         THEN SubSeq(s, j, j + 2)
         ELSE SubSeq(s, j, j + 1)
    ELSE SubSeq(s, j, j)

\* analysis.match(/Score.*?([0-9]{1,3})/i): the leftmost 'Score' that has a
\* digit after it on its line; found = FALSE models null.
hundredMatch(text) ==
    LET starts == {i \in 1..Len(text) :
                      /\ scoreWordAt(text, i)
                      /\ firstDigitOnLine(text, i + 5) # 0}
    IN  IF starts = {}
        THEN [found |-> FALSE, group |-> <<>>]
        ELSE [found |-> TRUE,
              group |-> digitRun(text,
                                 firstDigitOnLine(text, MinOf(starts) + 5))]

\* parseInt(text, 10) of a non-empty run of digits.
RECURSIVE parseInt(_)
parseInt(text) ==
    IF text = <<>>
    THEN 0
    ELSE 10 * parseInt(SubSeq(text, 1, Len(text) - 1)) + DigitValue(text[Len(text)])

\* The end of the greedy run [0-9.]+ that starts at position i.
RECURSIVE numberRunEnd(_, _)
numberRunEnd(s, i) ==
    IF i < Len(s) /\ (IsDigit(s[i + 1]) \/ s[i + 1] = ".")
    THEN numberRunEnd(s, i + 1)
    ELSE i

\* analysis.match(/\[([0-9.]+)\/5 ?STAR/i): the leftmost '[' followed by a
\* run of digits and dots, '/5', at most one space and the star.
starMatch(text) ==
    LET ok(i) ==
            /\ text[i] = "["
            /\ i + 1 <= Len(text)
            /\ (IsDigit(text[i + 1]) \/ text[i + 1] = ".")
            /\ LET e == numberRunEnd(text, i + 1)
               IN  /\ e + 3 <= Len(text)
                   /\ text[e + 1] = "/"
                   /\ text[e + 2] = "5"
                   /\ \/ text[e + 3] = STAR
                      \/ /\ text[e + 3] = " "
                         /\ e + 4 <= Len(text)
                         /\ text[e + 4] = STAR
        starts == {i \in 1..Len(text) : ok(i)}
    IN  IF starts = {}
        THEN [found |-> FALSE, group |-> <<>>]
        ELSE [found |-> TRUE,
              group |-> SubSeq(text, MinOf(starts) + 1,
                               numberRunEnd(text, MinOf(starts) + 1))]

\* The leading digits of text.
RECURSIVE leadingDigits(_)
leadingDigits(text) ==
    IF text # <<>> /\ IsDigit(Head(text))
    THEN <<Head(text)>> \o leadingDigits(Tail(text))
    ELSE <<>>

RECURSIVE pow10(_)
pow10(n) == IF n = 0 THEN 1 ELSE 10 * pow10(n - 1)

\* parseFloat(text) of a run of digits and dots: the longest prefix that is a
\* decimal literal (digits, then at most one '.' and digits), as the exact
\* fraction num / den; nan = TRUE when no prefix is a number.
parseFloat(text) ==
    LET int == leadingDigits(text)
        rest == SubSeq(text, Len(int) + 1, Len(text))
        frac == IF rest # <<>> /\ Head(rest) = "."
                THEN leadingDigits(Tail(rest))
                ELSE <<>>
    IN  IF int = <<>> /\ frac = <<>>
        THEN [nan |-> TRUE, num |-> 0, den |-> 1]
        ELSE [nan |-> FALSE, num |-> parseInt(int \o frac), den |-> pow10(Len(frac))]

\* A variant: Math.floor in place of Math.round.
rescale_Floor(stars) == (20 * stars.num) \div stars.den

\* Math.round((stars / 5) * 100) for stars = num / den: the nearest integer
\* to 20 * num / den, a tie going up. (Exact for the ratings of the model,
\* which have at most two decimals, so that no tie and no floating point
\* error arises.)
rescale(stars) == (40 * stars.num + stars.den) \div (2 * stars.den)

Null == [isNull |-> TRUE, value |-> 0]

Score(n) == [isNull |-> FALSE, value |-> n]

\* A variant: the number of the rating is used whether or not it parsed.
starScore_Unchecked(text) ==
    LET m == starMatch(text)
    IN  IF m.found
        THEN Score(rescale(parseFloat(m.group)))
        ELSE Null

\* The star attempt of extractScore.
starScore(text) ==
    LET m == starMatch(text)
    IN  IF m.found /\ ~parseFloat(m.group).nan
        THEN Score(rescale(parseFloat(m.group)))
        ELSE Null

\* A variant: the star attempt first, then the numeric attempt.
extractScore_StarFirst(text) ==
    LET m == hundredMatch(text)
    IN  IF ~starScore(text).isNull THEN starScore(text)
        ELSE IF m.found THEN Score(parseInt(m.group)) ELSE Null

\* The numeric attempt of extractScore, then the star attempt.
extractScore(text) ==
    LET m == hundredMatch(text)
    IN  IF m.found THEN Score(parseInt(m.group)) ELSE starScore(text)

-----------------------------------------------------------------------------
(* The analyses extractScore is applied to: an optional 'Score' word, a    *)
(* separator, a run of digits, and an optional bracketed star rating, in   *)
(* either order, next to the three examples of the specification.          *)

\* Largest number of digits written after the word 'Score'.
MaxDigits == 4

DigitPool == {"0", "2", "8"}

DigitStrings == UNION {[1..k -> DigitPool] : k \in 0..MaxDigits}

ScoreWords == {<<>>, <<"S", "c", "o", "r", "e">>, <<"s", "C", "O", "R", "E">>}

Separators == {<<":", " ">>, <<"\n">>}

\* '[3.5/5 STAR]'
StarThreeHalf ==
    <<"[","3",".","5","/","5"," ",STAR,"]">>

\* '[4/5STAR]'
StarFour ==
    <<"[","4","/","5",STAR,"]">>

\* '[../5STAR]' : the number is only dots
StarDots ==
    <<"[",".",".","/","5",STAR,"]">>

\* '[9/5 STAR]'
StarNine ==
    <<"[","9","/","5"," ",STAR,"]">>

\* '[4.33/5STAR]'
StarFraction ==
    <<"[","4",".","3","3","/","5",STAR,"]">>

StarParts == {<<>>, StarThreeHalf, StarFour, StarDots, StarNine, StarFraction}

\* '### Overall Score\n[Score: 82] great job'
ExampleNumeric ==
    <<"#","#","#"," ","O","v","e","r","a","l","l"," ","S","c","o","r","e","\n","[","S",
      "c","o","r","e",":"," ","8","2","]"," ","g","r","e","a","t"," ","j","o","b">>

\* '[3.5/5 STAR] decent PR'
ExampleStar ==
    <<"[","3",".","5","/","5"," ",STAR,"]"," ","d","e","c","e","n","t"," ","P","R">>

\* 'no rating mentioned here'
ExampleAbsent ==
    <<"n","o"," ","r","a","t","i","n","g"," ","m","e","n","t","i","o","n","e","d"," ",
      "h","e","r","e">>

Analyses ==
    {ExampleNumeric, ExampleStar, ExampleAbsent}
    \cup {w \o sep \o ds \o <<" ">> \o st :
            w \in ScoreWords, sep \in Separators, ds \in DigitStrings, st \in StarParts}
    \cup {st \o <<" ">> \o w \o sep \o ds :
            w \in ScoreWords, sep \in Separators, ds \in DigitStrings, st \in StarParts}

-----------------------------------------------------------------------------
(* The driver run. Each await of the code is one step; what the network    *)
(* answers is chosen when the step is taken. The trace lists the steps in  *)
(* the order they were started.                                            *)

\* String.prototype.trim.
RECURSIVE trim(_)
trim(s) ==
    IF s = <<>>
    THEN s
    ELSE IF IsSpace(Head(s))
         THEN trim(Tail(s))
         ELSE IF IsSpace(s[Len(s)])
              THEN trim(SubSeq(s, 1, Len(s) - 1))
              ELSE s

\* excludeFilesInput ? excludeFilesInput.split(',').map(p => p.trim()) : []
processExcludePatterns(excludeFilesInput) ==
    IF excludeFilesInput = <<>>
    THEN <<>>
    ELSE LET parts == split(excludeFilesInput, <<",">>)
         IN  [k \in 1..Len(parts) |-> trim(parts[k])]

\* core.getInput(name, {required: true}) throws on an empty value: the run
\* reads open_router_key, model_id and github_token this way.
missingRequired(ins) ==
    \/ ins.open_router_key = ""
    \/ ins.model_id = ""
    \/ ins.github_token = ""

\* A variant: any label will do.
hasLabel_Any(names, requiredLabel) == Len(names) > 0

\* labels.some(label => label.name === requiredLabel)
hasLabel(names, requiredLabel) ==
    \E k \in 1..Len(names) : names[k] = requiredLabel

\* The value of a call of filterExcludedFiles that ends by an exception of
\* the runtime (a RangeError on a diff too large for its string operations).
FilterFault == [out |-> <<>>, threw |-> TRUE, log |-> <<>>, excludedFiles |-> <<>>]

\* try { diff = filterExcludedFiles(diff, excludePatterns) } catch { warning }
\* : the diff the run goes on with, r being how the call ended.
afterFilter_Lost(before, r) == r.out

afterFilter(before, r) == IF r.threw THEN before ELSE r.out

\* The default of minimum_score.
DefaultMinimumScore == <<"7", "5">>

NaN == [nan |-> TRUE, value |-> 0]

\* parseInt(core.getInput('minimum_score') || '75', 10): the leading digits
\* of the text, NaN when it does not start with a digit.
parseMinimumScore(input) ==
    LET text == IF input = <<>> THEN DefaultMinimumScore ELSE input
        digits == leadingDigits(text)
    IN  IF digits = <<>> THEN NaN ELSE [nan |-> FALSE, value |-> parseInt(digits)]

\* score !== null && score < minimumScore; a comparison with NaN is false.
belowMinimum_OrEqual(s, minimum) ==
    ~s.isNull /\ ~minimum.nan /\ s.value <= minimum.value

belowMinimum(s, minimum) ==
    ~s.isNull /\ ~minimum.nan /\ s.value < minimum.value

NoWarning == [blocked |-> FALSE, score |-> 0, minimum |-> 0]

\* '> PR Blocked: The AI review score for this PR is ${score}, which is below
\* the required minimum of ${minimumScore}. ...', or the empty string.
warningFor(s, minimum) ==
    IF belowMinimum(s, minimum)
    THEN [blocked |-> TRUE, score |-> s.value, minimum |-> minimum.value]
    ELSE NoWarning

\* A variant: the warning is left out of the body.
commentBody_NoWarning(warning, text, modelId) ==
    [heading |-> "## DiffGuard AI Analysis", warning |-> NoWarning,
     analysis |-> text, model |-> modelId]

\* The body createPRComment posts: the heading, warningMsg + analysis, and
\* the model's name.
commentBody(warning, text, modelId) ==
    [heading |-> "## DiffGuard AI Analysis", warning |-> warning,
     analysis |-> text, model |-> modelId]

\* The inputs of the action. exclude_files is as getInput returns it.
ExcludeFilesInputs ==
    {<<>>,
     PatStarLock,
     <<"a", ",", ",", "b">>,
     <<"a", ",">>,
     <<"a", ",", " ", ",", "b">>}

MinimumScoreInputs == {<<>>, <<"8", "0">>, <<"a", "b", "c">>}

RequiredInputs ==
    {[open_router_key |-> "key", model_id |-> "model", github_token |-> "token"],
     [open_router_key |-> "", model_id |-> "model", github_token |-> "token"],
     [open_router_key |-> "key", model_id |-> "", github_token |-> "token"],
     [open_router_key |-> "key", model_id |-> "model", github_token |-> ""]}

RunInputs ==
    {[open_router_key |-> r.open_router_key, model_id |-> r.model_id,
      github_token |-> r.github_token, review_label |-> l,
      exclude_files |-> e, minimum_score |-> m] :
        r \in RequiredInputs, l \in {"", "ai-review"},
        e \in ExcludeFilesInputs, m \in MinimumScoreInputs}

\* The label lists a pull request carries.
RunLabels == {<<>>, <<"bug", "ai-review">>, <<"AI-Review">>}

\* The diffs the pull request has.
RunDiffs ==
    {PreText \o concat(prependMarker(<<SecPkgLock, SecOnlyB>>)),
     concat(prependMarker(<<SecBareA>>))}

\* 'Score: 200'
AnalysisHigh ==
    <<"S", "c", "o", "r", "e", ":", " ", "2", "0", "0">>

\* 'Score: 75'
AnalysisAtDefault ==
    <<"S", "c", "o", "r", "e", ":", " ", "7", "5">>

\* The answers of the model API.
RunAnalyses ==
    {ExampleNumeric, ExampleStar, ExampleAbsent, AnalysisHigh, AnalysisAtDefault, StarDots}

FilterIdle ==
    /\ pc = "idle"
    /\ result = NoResult
    /\ again = NoResult

InitRun ==
    /\ step = "inputs"
    /\ inputs \in RunInputs
    /\ diff = <<>>
    /\ excludePatterns = <<>>
    /\ FilterIdle
    /\ labels = <<>>
    /\ analysis = <<>>
    /\ score = Null
    /\ minimumScore = NaN
    /\ warningMsg = NoWarning
    /\ failed = FALSE
    /\ comments = <<>>
    /\ fetched = <<>>
    /\ sent = <<>>
    /\ trace = <<>>

\* A variant: the comment is posted before the score is extracted.
nextStep_CommentFirst(current) ==
    CASE current = "inputs" -> "labels"
      [] current = "labels" -> "fetch"
      [] current = "fetch" -> "filter"
      [] current = "filter" -> "analyze"
      [] current = "analyze" -> "comment"
      [] current = "comment" -> "score"
      [] current = "score" -> "done"

\* The order of the statements of run: what follows a step that completed.
nextStep(current) ==
    CASE current = "inputs" -> "labels"
      [] current = "labels" -> "fetch"
      [] current = "fetch" -> "filter"
      [] current = "filter" -> "analyze"
      [] current = "analyze" -> "score"
      [] current = "score" -> "comment"
      [] current = "comment" -> "done"

\* catch (error) { core.setFailed(`Action failed: ...`) } : the run is over.
Caught(events) ==
    /\ failed' = TRUE
    /\ trace' = trace \o events \o <<"actionFailed">>
    /\ step' = "done"

\* Lines 315-338: the inputs are read and the pattern list is built; a
\* missing required input throws.
ReadInputs ==
    /\ step = "inputs"
    /\ IF missingRequired(inputs)
       THEN /\ Caught(<<"missingInput">>)
            /\ UNCHANGED excludePatterns
       ELSE /\ excludePatterns' = processExcludePatterns(inputs.exclude_files)
            /\ step' = nextStep(step)
            /\ UNCHANGED <<failed, trace>>
    /\ UNCHANGED <<diff, pc, result, again, inputs, labels, analysis, score,
                   minimumScore, warningMsg, comments, fetched, sent>>

\* shouldReviewPR with no required label: true, no call.
ReviewEveryPR ==
    /\ step = "labels"
    /\ inputs.review_label = ""
    /\ step' = nextStep(step)
    /\ UNCHANGED <<filterVars, inputs, labels, analysis, score, minimumScore,
                   warningMsg, failed, comments, fetched, sent, trace>>

\* shouldReviewPR with a required label: the labels are listed; the run ends
\* when none has the name.
ListLabels ==
    /\ step = "labels"
    /\ inputs.review_label # ""
    /\ \E names \in RunLabels :
          /\ labels' = names
          /\ trace' = trace \o <<"listLabels">>
          /\ step' = IF hasLabel(names, inputs.review_label) THEN nextStep(step) ELSE "done"
    /\ UNCHANGED <<filterVars, inputs, analysis, score, minimumScore,
                   warningMsg, failed, comments, fetched, sent>>

\* listLabelsOnIssue fails: 'Failed to fetch PR labels'.
ListLabelsError ==
    /\ step = "labels"
    /\ inputs.review_label # ""
    /\ Caught(<<"listLabels", "error">>)
    /\ UNCHANGED <<filterVars, inputs, labels, analysis, score, minimumScore,
                   warningMsg, comments, fetched, sent>>

\* let diff = await getPRDiff(octokit, github.context)
FetchDiff ==
    /\ step = "fetch"
    /\ diff' \in RunDiffs
    /\ fetched' = diff'
    /\ trace' = trace \o <<"getDiff">>
    /\ step' = nextStep(step)
    /\ UNCHANGED <<excludePatterns, pc, result, again, inputs, labels, analysis,
                   score, minimumScore, warningMsg, failed, comments, sent>>

\* pulls.get fails: 'Failed to fetch PR diff'.
FetchDiffError ==
    /\ step = "fetch"
    /\ Caught(<<"getDiff", "error">>)
    /\ UNCHANGED <<filterVars, inputs, labels, analysis, score, minimumScore,
                   warningMsg, comments, fetched, sent>>

\* if (excludePatterns.length > 0) is false: the filter is not called.
SkipFilter ==
    /\ step = "filter"
    /\ Len(excludePatterns) = 0
    /\ step' = nextStep(step)
    /\ UNCHANGED <<filterVars, inputs, labels, analysis, score, minimumScore,
                   warningMsg, failed, comments, fetched, sent, trace>>

\* The filter is called inside its try block; r is how the call ends.
FilterDiff ==
    /\ step = "filter"
    /\ Len(excludePatterns) > 0
    /\ \E r \in {filterExcludedFiles(diff, excludePatterns), FilterFault} :
          /\ result' = r
          /\ diff' = afterFilter(diff, r)
          /\ trace' = trace \o (IF r.threw THEN <<"filter", "filterThrew">>
                                           ELSE <<"filter">>)
    /\ step' = nextStep(step)
    /\ UNCHANGED <<excludePatterns, pc, again, inputs, labels, analysis, score,
                   minimumScore, warningMsg, failed, comments, fetched, sent>>

\* const analysis = await analyzeDiff(diff, ...)
AnalyzeDiff ==
    /\ step = "analyze"
    /\ sent' = diff
    /\ analysis' \in RunAnalyses
    /\ trace' = trace \o <<"analyze">>
    /\ step' = nextStep(step)
    /\ UNCHANGED <<filterVars, inputs, labels, score, minimumScore, warningMsg,
                   failed, comments, fetched>>

\* The request fails or the response has no choices: analyzeDiff throws.
AnalyzeDiffError ==
    /\ step = "analyze"
    /\ sent' = diff
    /\ Caught(<<"analyze", "error">>)
    /\ UNCHANGED <<filterVars, inputs, labels, analysis, score, minimumScore,
                   warningMsg, comments, fetched>>

\* Lines 397-415: the threshold is parsed, the score is extracted, and the
\* job is failed with a warning prefix when the score is below the threshold.
ScoreAndGate ==
    /\ step = "score"
    /\ LET minimum == parseMinimumScore(inputs.minimum_score)
           s == extractScore(analysis)
       IN  /\ minimumScore' = minimum
           /\ score' = s
           /\ warningMsg' = warningFor(s, minimum)
           /\ failed' = (failed \/ belowMinimum(s, minimum))
           /\ trace' = trace \o (IF belowMinimum(s, minimum)
                                 THEN <<"extractScore", "setFailed">>
                                 ELSE <<"extractScore">>)
    /\ step' = nextStep(step)
    /\ UNCHANGED <<filterVars, inputs, labels, analysis, comments, fetched, sent>>

\* await createPRComment(octokit, github.context, warningMsg + analysis)
CreateComment ==
    /\ step = "comment"
    /\ comments' = Append(comments, commentBody(warningMsg, analysis, inputs.model_id))
    /\ trace' = trace \o <<"createComment">>
    /\ step' = nextStep(step)
    /\ UNCHANGED <<filterVars, inputs, labels, analysis, score, minimumScore,
                   warningMsg, failed, fetched, sent>>

\* issues.createComment fails: 'Failed to create PR comment'.
CreateCommentError ==
    /\ step = "comment"
    /\ Caught(<<"createComment", "error">>)
    /\ UNCHANGED <<filterVars, inputs, labels, analysis, score, minimumScore,
                   warningMsg, comments, fetched, sent>>

NextRun ==
    \/ ReadInputs
    \/ ReviewEveryPR
    \/ ListLabels
    \/ ListLabelsError
    \/ FetchDiff
    \/ FetchDiffError
    \/ SkipFilter
    \/ FilterDiff
    \/ AnalyzeDiff
    \/ AnalyzeDiffError
    \/ ScoreAndGate
    \/ CreateComment
    \/ CreateCommentError

SpecRun == InitRun /\ [][NextRun]_vars

-----------------------------------------------------------------------------
(* extractScore on its own: a run that has reached line 397 with any       *)
(* answer of the model API.                                                *)

InitScore ==
    /\ step = "score"
    /\ inputs \in {i \in RunInputs :
                      /\ ~missingRequired(i)
                      /\ i.review_label = ""
                      /\ i.exclude_files = <<>>
                      /\ i.minimum_score \in {<<>>, <<"8", "0">>}}
    /\ diff \in {concat(prependMarker(<<SecBareA>>))}
    /\ excludePatterns = <<>>
    /\ FilterIdle
    /\ labels = <<>>
    /\ analysis \in Analyses
    /\ score = Null
    /\ minimumScore = NaN
    /\ warningMsg = NoWarning
    /\ failed = FALSE
    /\ comments = <<>>
    /\ fetched = diff
    /\ sent = diff
    /\ trace = <<"getDiff", "analyze">>

NextScore == ScoreAndGate

SpecScore == InitScore /\ [][NextScore]_vars

(* Properties of filterExcludedFiles.                                      *)

\* The first call has returned and result holds its value.
Called == pc = "filtered"

\* The segments of the input diff: InSegments[1] is the text before the
\* first marker, InSegments[n + 1] the n-th 'diff --git' section.
InSegments == split(diff, MARKER)

NumSections == Len(InSegments) - 1

\* The call ended by substituting the placeholder diff.
Substituted ==
    /\ Len(result.log) > 0
    /\ result.log[Len(result.log)][1] = "placeholder"

\* Section i (0-based index in fileSections) was excluded by the call.
Excluded(i) ==
    \E j \in 1..Len(result.log) :
        result.log[j][1] = "exclude" /\ result.log[j][2] = i

\* C1: for a non-empty input diff and any pattern list, the call returns a
\* non-empty string.
NeverReturnsEmpty ==
    (Called /\ diff # <<>>) => (~result.threw /\ result.out # <<>>)

\* C1's case: every section of a non-empty diff was excluded, and the call
\* returned the placeholder instead of the empty string.
NeverReturnsEmptyWitness ==
    /\ pc = "filtered"
    /\ diff # <<>>
    /\ NumSections = 2
    /\ Len(result.excludedFiles) = 2
    /\ result.out = PLACEHOLDER

\* C2: when a non-empty pattern list excludes every section of the input,
\* whatever precedes the first marker, the call returns a non-empty diff that
\* holds at least one 'diff --git' section.
AllExcludedYieldsFileSection ==
    (/\ Called
     /\ Len(excludePatterns) > 0
     /\ NumSections >= 1
     /\ \A i \in 1..NumSections : Excluded(i))
    => (/\ ~result.threw
        /\ result.out # <<>>
        /\ IndexOf(result.out, MARKER) # 0)

\* C3: with an empty pattern list the call returns the diff itself, the
\* empty diff included, and does nothing else.
IdentityOnNoPatterns ==
    (Called /\ excludePatterns = <<>>)
    => (~result.threw /\ result.out = diff /\ result.log = <<>>)

\* C3's case: the empty diff, which the body of the function would replace
\* by the placeholder, came back unchanged.
IdentityOnNoPatternsWitness ==
    /\ pc = "filtered"
    /\ excludePatterns = <<>>
    /\ diff = <<>>
    /\ result.out = <<>>

\* C4: filtering the value of a call again, with the same patterns, returns
\* that value.
Idempotent ==
    pc = "refiltered" => (~again.threw /\ again.out = result.out)

\* C4's case: the first call returned the placeholder, the pattern list
\* matches the placeholder's path README.md, and the second call ran.
IdempotentWitness ==
    /\ pc = "refiltered"
    /\ result.out = PLACEHOLDER
    /\ \E k \in 1..Len(excludePatterns) : excludePatterns[k] = PatReadme
    /\ Len(again.excludedFiles) = 1

\* The sections of segs picked by the set K of positions, in input order,
\* each behind one marker.
RECURSIVE PickSections(_, _, _)
PickSections(segs, K, n) ==
    IF n + 1 > Len(segs)
    THEN <<>>
    ELSE (IF n \in K THEN MARKER \o segs[n + 1] ELSE <<>>)
         \o PickSections(segs, K, n + 1)

\* C5: unless the placeholder is substituted, the value of the call is the
\* text before the first marker followed by a subsequence of the input's
\* sections, each unchanged and behind exactly one marker.
OutputIsSubsequence ==
    (Called /\ ~Substituted)
    => (/\ ~result.threw
        /\ LET segs == InSegments
           IN  \E K \in SUBSET (1..(Len(segs) - 1)) :
                   result.out = segs[1] \o PickSections(segs, K, 1))

\* C5's case: a diff with text before the first marker and two sections, of
\* which the call dropped the first one and kept the second.
OutputIsSubsequenceWitness ==
    /\ pc = "filtered"
    /\ InSegments[1] = PreText
    /\ NumSections = 2
    /\ Excluded(1)
    /\ ~Excluded(2)
    /\ result.out = PreText \o MARKER \o InSegments[3]

\* The text reads a path after the letter: letter, '/' and a non-whitespace
\* character follow each other somewhere in it.
Mentions(s, letter) ==
    \E j \in 1..(Len(s) - 2) :
        s[j] = letter /\ s[j + 1] = "/" /\ ~IsSpace(s[j + 2])

HasPath(s) == Mentions(s, "a") \/ Mentions(s, "b")

\* The glob reading of a pattern: '*' stands for any run of characters, '?'
\* for exactly one character, any other character for itself; the whole of
\* s, from position j on, must have the shape of p from position i on.
RECURSIVE GlobFrom(_, _, _, _)
GlobFrom(p, i, s, j) ==
    IF i > Len(p)
    THEN j = Len(s) + 1
    ELSE CASE p[i] = "*" -> \E k \in j..(Len(s) + 1) : GlobFrom(p, i + 1, s, k)
           [] p[i] = "?" -> j <= Len(s) /\ GlobFrom(p, i + 1, s, j + 1)
           [] OTHER -> j <= Len(s) /\ s[j] = p[i] /\ GlobFrom(p, i + 1, s, j + 1)

GlobMatch(p, s) == GlobFrom(p, 1, s, 1)

\* Rule 1 and rule 2 of the exclusion test, as the specification words them.
SuffixRule(path, p) == path = p \/ endsWith(path, p)

RECURSIVE AfterLastSlash(_)
AfterLastSlash(path) ==
    IF \E j \in 1..Len(path) : path[j] = "/"
    THEN AfterLastSlash(Tail(path))
    ELSE path

BasenameRule(path, p) == AfterLastSlash(path) = p

\* The path the code extracts from a section.
SectionPath(s) == filePathOf(filePathMatchA(s), filePathMatchB(s))

\* C6: a section with an extractable path is excluded if and only if some
\* pattern of the list matches the path under the suffix rule, the basename
\* rule or as a glob on the full path.
ExcludedIffSomeRuleMatches ==
    Called =>
        LET segs == InSegments
        IN  \A i \in 1..(Len(segs) - 1) :
                HasPath(segs[i + 1]) =>
                    LET path == SectionPath(segs[i + 1])
                    IN  Excluded(i) <=>
                            \E k \in 1..Len(excludePatterns) :
                                \/ SuffixRule(path, excludePatterns[k])
                                \/ BasenameRule(path, excludePatterns[k])
                                \/ GlobMatch(excludePatterns[k], path)

\* The same equivalence with rule 3 read as the code computes it (the
\* converted pattern compiled and tested as a regular expression).
ExcludedIffSomeCodeRuleMatches ==
    Called =>
        LET segs == InSegments
        IN  \A i \in 1..(Len(segs) - 1) :
                HasPath(segs[i + 1]) =>
                    LET path == SectionPath(segs[i + 1])
                    IN  Excluded(i) <=>
                            \E k \in 1..Len(excludePatterns) :
                                \/ SuffixRule(path, excludePatterns[k])
                                \/ BasenameRule(path, excludePatterns[k])
                                \/ regexMatch(path, excludePatterns[k]) = "match"

\* The example of C6: with the single pattern 'package-lock.json' exactly the
\* sections whose path equals or ends with it are removed.
PackageLockExample ==
    (Called /\ excludePatterns = <<PatPkgLock>>) =>
        LET segs == InSegments
        IN  \A i \in 1..(Len(segs) - 1) :
                HasPath(segs[i + 1]) =>
                    (Excluded(i) <=> SuffixRule(SectionPath(segs[i + 1]), PatPkgLock))

\* C7: where a pattern is decided by rule 3 (rules 1 and 2 did not match),
\* the section is excluded for that pattern exactly when the pattern, read as
\* a glob, matches the whole path.
RegexRuleIsAnchoredGlob ==
    Called =>
        LET segs == InSegments
            log == result.log
        IN  \A j \in 1..Len(log) :
                (/\ log[j][1] = "check"
                 /\ ~SuffixRule(SectionPath(segs[log[j][2] + 1]), log[j][3])
                 /\ ~BasenameRule(SectionPath(segs[log[j][2] + 1]), log[j][3]))
                => ((j < Len(log) /\ log[j + 1][1] = "exclude")
                    <=> GlobMatch(log[j][3], SectionPath(segs[log[j][2] + 1])))

\* C8: a section that reads no path is kept in the value of the call and is
\* checked against no pattern, whatever the pattern list.
NoPathSectionKept ==
    Called =>
        LET segs == InSegments
            log == result.log
        IN  \A i \in 1..(Len(segs) - 1) :
                ~HasPath(segs[i + 1]) =>
                    /\ ~result.threw
                    /\ IndexOf(result.out, MARKER \o segs[i + 1]) # 0
                    /\ \A j \in 1..Len(log) :
                           log[j][1] \in {"check", "exclude"} => log[j][2] # i

\* C8's case: the pattern list holds the empty pattern, which matches every
\* path; the section with a path was excluded and the one without was kept.
NoPathSectionKeptWitness ==
    /\ pc = "filtered"
    /\ \E k \in 1..Len(excludePatterns) : excludePatterns[k] = PatEmpty
    /\ NumSections = 2
    /\ InSegments[2] = SecNoPath
    /\ Excluded(2)
    /\ result.out = InSegments[1] \o MARKER \o SecNoPath

\* The run of non-whitespace characters of s that starts at position i
\* (empty when i is past the end or s[i] is whitespace).
RECURSIVE NonSpaceRun(_, _)
NonSpaceRun(s, i) ==
    IF i > Len(s) \/ IsSpace(s[i])
    THEN <<>>
    ELSE <<s[i]>> \o NonSpaceRun(s, i + 1)

\* The path as C9 words it: what follows the first occurrence of 'a/' in the
\* section, else what follows the first 'b/'.
PathAfterFirst(s) ==
    LET ia == IndexOf(s, <<"a", "/">>)
        ib == IndexOf(s, <<"b", "/">>)
    IN  IF ia # 0 THEN NonSpaceRun(s, ia + 2)
        ELSE IF ib # 0 THEN NonSpaceRun(s, ib + 2)
        ELSE <<>>

\* What follows the first occurrence of letter and '/' that a non-whitespace
\* character follows, scanning s from position j; empty when there is none.
RECURSIVE PathAfterFirstFollowed(_, _, _)
PathAfterFirstFollowed(s, letter, j) ==
    IF j + 2 > Len(s)
    THEN <<>>
    ELSE IF s[j] = letter /\ s[j + 1] = "/" /\ ~IsSpace(s[j + 2])
    THEN NonSpaceRun(s, j + 2)
    ELSE PathAfterFirstFollowed(s, letter, j + 1)

PathReference(s) ==
    IF PathAfterFirstFollowed(s, "a", 1) # <<>>
    THEN PathAfterFirstFollowed(s, "a", 1)
    ELSE PathAfterFirstFollowed(s, "b", 1)

\* The log entries that carry the path a section was matched on.
IsPathEntry(e) == e[1] \in {"include", "exclude"}

\* C9 as stated: the path a section is matched on is the non-whitespace run
\* after the first 'a/' of the section, else after the first 'b/'.
PathFollowsFirstOccurrence ==
    Called =>
        LET segs == InSegments
            log == result.log
        IN  \A j \in 1..Len(log) :
                IsPathEntry(log[j]) => log[j][3] = PathAfterFirst(segs[log[j][2] + 1])

\* C9 as amended: the path a section is matched on is the non-whitespace run
\* after the first 'a/' that a non-whitespace character follows, anywhere in
\* the section, and after the first such 'b/' only when there is no such 'a/'.
PathFollowsFirstReference ==
    (Called /\ Len(excludePatterns) > 0) =>
        LET segs == InSegments
            log == result.log
        IN  /\ \A j \in 1..Len(log) :
                   IsPathEntry(log[j]) => log[j][3] = PathReference(segs[log[j][2] + 1])
            /\ \A i \in 1..(Len(segs) - 1) :
                   PathReference(segs[i + 1]) # <<>> =>
                       \E j \in 1..Len(log) : IsPathEntry(log[j]) /\ log[j][2] = i

\* C9's case: a section whose first 'a/' is followed by a space was matched
\* on the path after its second 'a/', and a section with no 'a/' on the path
\* after its 'b/'.
PathFollowsFirstReferenceWitness ==
    /\ pc = "filtered"
    /\ NumSections = 2
    /\ InSegments[2] = SecBareA
    /\ InSegments[3] = SecOnlyB
    /\ \E j \in 1..Len(result.log) :
           /\ IsPathEntry(result.log[j])
           /\ result.log[j][2] = 1
           /\ result.log[j][3] = <<"x", ".", "l", "o", "c", "k">>
    /\ \E j \in 1..Len(result.log) :
           /\ IsPathEntry(result.log[j])
           /\ result.log[j][2] = 2
           /\ result.log[j][3] = <<"R", "E", "A", "D", "M", "E", ".", "m", "d">>

\* The position of pattern p in the pattern list (patterns are distinct).
PositionOf(p) == CHOOSE k \in 1..Len(excludePatterns) : excludePatterns[k] = p

\* C10: a pattern whose regular expression does not compile never makes the
\* call throw; after its warning the loop goes on to the next pattern for the
\* same section (or, after the last pattern, keeps the section), no section
\* is excluded by a pattern that raised the warning for it, and every section
\* of the input is decided.
InvalidPatternIsSkipped ==
    (Called /\ Len(excludePatterns) > 0) =>
        LET segs == InSegments
            log == result.log
        IN  /\ ~result.threw
            /\ \A j \in 1..Len(log) :
                   log[j][1] = "warning" =>
                       /\ j < Len(log)
                       /\ IF PositionOf(log[j][3]) < Len(excludePatterns)
                          THEN log[j + 1] = <<"check", log[j][2],
                                              excludePatterns[PositionOf(log[j][3]) + 1]>>
                          ELSE log[j + 1][1] = "include" /\ log[j + 1][2] = log[j][2]
                       /\ \A h \in 1..Len(log) :
                              (log[h][1] = "exclude" /\ log[h][2] = log[j][2])
                              => log[h][4] # log[j][3]
            /\ \A i \in 1..(Len(segs) - 1) :
                   \E j \in 1..Len(log) :
                       log[j][1] \in {"default", "include", "exclude"} /\ log[j][2] = i

\* C10's case: for the first section the invalid pattern '(' raised its
\* warning and the next pattern then excluded the section; the second section
\* was processed after it.
InvalidPatternIsSkippedWitness ==
    /\ pc = "filtered"
    /\ excludePatterns = <<PatParen, PatStarLock>>
    /\ NumSections = 2
    /\ Len(result.log) >= 5
    /\ result.log[2] = <<"warning", 1, PatParen>>
    /\ result.log[3] = <<"check", 1, PatStarLock>>
    /\ result.log[4][1] = "exclude"
    /\ \E j \in 5..Len(result.log) : result.log[j][2] = 2
    /\ ~result.threw

-----------------------------------------------------------------------------
(* Properties of extractScore.                                             *)

\* extractScore has returned and score holds its value.
Extracted == \E k \in 1..Len(trace) : trace[k] = "extractScore"

\* C11: every non-null value extractScore returns is an integer in 0..100,
\* for the numeric form and for the rescaled star form alike.
ScoreWithinRange ==
    (Extracted /\ ~score.isNull) => score.value \in 0..100

\* The word 'Score' in any letter case is written at position i of s.
IsScoreWord(s, i) ==
    /\ i + 4 <= Len(s)
    /\ s[i] \in {"S", "s"}
    /\ s[i + 1] \in {"C", "c"}
    /\ s[i + 2] \in {"O", "o"}
    /\ s[i + 3] \in {"R", "r"}
    /\ s[i + 4] \in {"E", "e"}

\* The positions of the digits that follow the word written at position i.
DigitsAfter(s, i) == {j \in (i + 5)..Len(s) : IsDigit(s[j])}

\* Those of them that no line terminator separates from the word.
DigitsOnLineAfter(s, i) ==
    {j \in DigitsAfter(s, i) : \A h \in (i + 5)..j : s[h] \notin {"\n", "\r"}}

\* The value of the run of one to three digits that starts at position j.
RunValue(s, j) ==
    LET d(k) == DigitValue(s[k])
        two == j + 1 <= Len(s) /\ IsDigit(s[j + 1])
        three == two /\ j + 2 <= Len(s) /\ IsDigit(s[j + 2])
    IN  IF three THEN 100 * d(j) + 10 * d(j + 1) + d(j + 2)
        ELSE IF two THEN 10 * d(j) + d(j + 1)
        ELSE d(j)

\* The occurrences of the word that digits follow, anywhere after it.
ScoreThenDigits(s) ==
    {i \in 1..Len(s) : IsScoreWord(s, i) /\ DigitsAfter(s, i) # {}}

\* The occurrences of the word that digits follow on the same line.
ScoreThenDigitsOnLine(s) ==
    {i \in 1..Len(s) : IsScoreWord(s, i) /\ DigitsOnLineAfter(s, i) # {}}

\* C12 as stated: when the word 'Score' is followed by a run of digits,
\* extractScore returns the value of the first run of one to three digits
\* that follows the word.
FirstDigitsAfterScore ==
    (Extracted /\ ScoreThenDigits(analysis) # {})
    => score = Score(RunValue(analysis,
                              MinOf(DigitsAfter(analysis,
                                                MinOf(ScoreThenDigits(analysis))))))

\* C12: when the word 'Score' is followed on the same line by a run of
\* digits, extractScore returns the value of the first run of one to three
\* digits that follows the first such occurrence of the word, a value in
\* 0..999, whether or not the analysis holds a star rating.
FirstDigitsOnLineAfterScore ==
    (Extracted /\ ScoreThenDigitsOnLine(analysis) # {})
    => LET i == MinOf(ScoreThenDigitsOnLine(analysis))
           v == RunValue(analysis, MinOf(DigitsOnLineAfter(analysis, i)))
       IN  score = Score(v) /\ v \in 0..999

\* A four-digit score beside a star rating: the first three digits are the
\* value.
FirstDigitsOnLineAfterScoreWitness ==
    /\ Extracted
    /\ IndexOf(analysis, StarThreeHalf) # 0
    /\ ScoreThenDigitsOnLine(analysis) # {}
    /\ score = Score(820)

\* The rating '[n/5 STAR' or '[n/5STAR' is written in s.
RatingIn(s, n) ==
    \/ IndexOf(s, <<"[">> \o n \o <<"/", "5", STAR>>) # 0
    \/ IndexOf(s, <<"[">> \o n \o <<"/", "5", " ", STAR>>) # 0

\* The ratings the analyses carry, with round(n / 5 * 100) worked by hand.
Ratings ==
    {[n |-> <<"3", ".", "5">>, value |-> 70],
     [n |-> <<"4">>, value |-> 80],
     [n |-> <<"9">>, value |-> 180],
     [n |-> <<"4", ".", "3", "3">>, value |-> 87]}

\* C13: the star form is used only when the numeric attempt finds nothing,
\* and then a rating '[n/5 STAR' yields round(n / 5 * 100).
StarOnlyAfterNumeric ==
    Extracted =>
        \A r \in Ratings :
            RatingIn(analysis, r.n) =>
                IF ScoreThenDigitsOnLine(analysis) = {}
                THEN score = Score(r.value)
                ELSE score = Score(RunValue(analysis,
                        MinOf(DigitsOnLineAfter(analysis,
                                MinOf(ScoreThenDigitsOnLine(analysis))))))

\* '[4.33/5STAR]' in an analysis with no numeric score: 86.6 rounds to 87.
StarOnlyAfterNumericWitness ==
    /\ Extracted
    /\ RatingIn(analysis, <<"4", ".", "3", "3">>)
    /\ ScoreThenDigitsOnLine(analysis) = {}
    /\ score = Score(87)

\* A rating whose number is only dots.
DotsRatingIn(s) == RatingIn(s, <<".", ".">>)

\* C14: extractScore returns null exactly when neither pattern matches or
\* the number of the matched rating does not parse; the run then sets no
\* warning and does not fail the job.
NullWhenNothingParses ==
    Extracted =>
        /\ score.isNull <=>
              /\ ScoreThenDigitsOnLine(analysis) = {}
              /\ \/ \A r \in Ratings : ~RatingIn(analysis, r.n)
                 \/ DotsRatingIn(analysis)
        /\ score.isNull =>
              /\ ~failed
              /\ warningMsg = NoWarning
              /\ \A k \in 1..Len(trace) : trace[k] # "setFailed"

\* A rating of dots after a 'Score' with no digit on its line.
NullWhenNothingParsesWitness ==
    /\ Extracted
    /\ DotsRatingIn(analysis)
    /\ \E i \in 1..Len(analysis) : IsScoreWord(analysis, i)
    /\ score.isNull
    /\ ~failed

-----------------------------------------------------------------------------
(* Properties of the driver run.                                           *)

Done == step = "done"

\* The step named e was started.
Started(e) == \E k \in 1..Len(trace) : trace[k] = e

\* Some network call of the run ended by an error.
NetworkError == Started("error")

\* The threshold the minimum_score input asks for: 75 when it is unset; an
\* input that is not a number asks for none.
HasThreshold == inputs.minimum_score \in {<<>>, <<"8", "0">>}

Threshold == IF inputs.minimum_score = <<>> THEN 75 ELSE 80

\* The run extracted a score strictly below the threshold.
ScoreBelow ==
    Extracted /\ ~score.isNull /\ HasThreshold /\ score.value < Threshold

\* One of the inputs the action requires has no value.
RequiredInputMissing ==
    \E name \in {"open_router_key", "model_id", "github_token"} : inputs[name] = ""

\* C15 as stated: a run ends with the job failed if and only if a network
\* call errored or the extracted score is strictly below minimum_score.
FailedIffErrorOrBelow ==
    Done => (failed <=> (NetworkError \/ ScoreBelow))

\* C15: a run ends with the job failed if and only if a required input is
\* missing, a network call errored, or the extracted score is strictly below
\* minimum_score (75 when unset); a run with no score, or with a score equal
\* to the threshold, is not failed for that.
FailedIffMissingOrErrorOrBelow ==
    Done => (failed <=> (RequiredInputMissing \/ NetworkError \/ ScoreBelow))

\* A run whose score equals the default threshold ends without failure.
FailedIffMissingOrErrorOrBelowWitness ==
    /\ Done
    /\ inputs.minimum_score = <<>>
    /\ score = Score(75)
    /\ Len(comments) = 1
    /\ ~failed

\* The place of a step in the order of the run; 0 for what is not a step.
StepRank(e) ==
    CASE e = "getDiff" -> 1
      [] e = "filter" -> 2
      [] e = "analyze" -> 3
      [] e = "extractScore" -> 4
      [] e = "setFailed" -> 5
      [] e = "createComment" -> 6
      [] OTHER -> 0

\* The step named e was started right after the step named before it.
Follows(e, before) ==
    \A k \in 1..Len(trace) :
        trace[k] = e =>
            \E h \in 1..(k - 1) :
                /\ trace[h] = before
                /\ \A g \in (h + 1)..(k - 1) : StepRank(trace[g]) = 0

\* C16: the steps of a run are started in the order fetch diff, filter,
\* model API call, score extraction, failure signal, comment post, each one
\* at most once and none before the one it follows; nothing follows a
\* network error but the failure of the job; at most one comment is posted.
StepsInOrder ==
    /\ \A h, k \in 1..Len(trace) :
          (h < k /\ StepRank(trace[h]) > 0 /\ StepRank(trace[k]) > 0)
          => StepRank(trace[h]) < StepRank(trace[k])
    /\ \A k \in 1..Len(trace) :
          /\ trace[k] = "filter" => \E h \in 1..(k - 1) : trace[h] = "getDiff"
          /\ trace[k] = "analyze" => \E h \in 1..(k - 1) : trace[h] = "getDiff"
          /\ trace[k] = "extractScore" => trace[k - 1] = "analyze"
          /\ trace[k] = "setFailed" => trace[k - 1] = "extractScore"
          /\ trace[k] = "createComment" =>
                \E h \in 1..(k - 1) : trace[h] = "extractScore"
          /\ trace[k] = "error" =>
                /\ k + 1 = Len(trace)
                /\ trace[k + 1] = "actionFailed"
                /\ Done
    /\ Len(comments) <= 1
    /\ Len(comments) = 1 => Started("createComment")

\* A run that takes every step.
StepsInOrderWitness ==
    /\ Done
    /\ trace = <<"getDiff", "filter", "analyze", "extractScore", "setFailed",
                 "createComment">>
    /\ Len(comments) = 1

\* The labels were listed, and none has exactly the required name.
LabelAbsent ==
    /\ inputs.review_label # ""
    /\ Len(trace) > 0
    /\ trace[1] = "listLabels"
    /\ ~NetworkError
    /\ \A k \in 1..Len(labels) : labels[k] # inputs.review_label

\* C17: with review_label unset the labels are never listed and the review
\* goes on to fetch the diff; with it set and no label of exactly that name
\* on the pull request, the run ends with no diff fetched, no model API call,
\* no comment and no failure.
LabelGating ==
    /\ inputs.review_label = "" =>
          /\ ~Started("listLabels")
          /\ (Done /\ ~RequiredInputMissing) => Started("getDiff")
    /\ LabelAbsent =>
          /\ Done
          /\ trace = <<"listLabels">>
          /\ fetched = <<>>
          /\ sent = <<>>
          /\ comments = <<>>
          /\ ~failed

\* The pull request carries 'AI-Review', the input asks for 'ai-review'.
LabelGatingWitness ==
    /\ LabelAbsent
    /\ labels = <<"AI-Review">>
    /\ Done
    /\ ~failed

\* C18: when the score is below the minimum the failure is signalled before
\* the comment is posted, the run still goes on to post it, and the body has
\* the analysis prefixed by the warning with the score and the minimum; in
\* every other run the body has the analysis and no warning.
BlockedCommentWarns ==
    /\ ScoreBelow =>
          /\ failed
          /\ Follows("createComment", "setFailed")
          /\ step = "comment" \/ Started("createComment")
    /\ Len(comments) = 1 =>
          /\ comments[1].analysis = analysis
          /\ comments[1].warning =
                IF ScoreBelow
                THEN [blocked |-> TRUE, score |-> score.value, minimum |-> Threshold]
                ELSE NoWarning

\* A score of 70 against the default minimum of 75.
BlockedCommentWarnsWitness ==
    /\ Len(comments) = 1
    /\ comments[1].warning = [blocked |-> TRUE, score |-> 70, minimum |-> 75]
    /\ comments[1].analysis = ExampleStar
    /\ trace[Len(trace) - 1] = "setFailed"
    /\ failed

\* C19: when the filter throws, the run is not failed for it and the diff as
\* fetched is what the model API is sent; the filter is called only when the
\* exclude_files input yields a non-empty pattern list.
FilterFailureIsSurvived ==
    /\ Started("filterThrew") =>
          /\ diff = fetched
          /\ step = "analyze" => ~failed
          /\ Started("analyze") => sent = fetched
          /\ failed => (NetworkError \/ ScoreBelow)
    /\ Started("filter") =>
          /\ inputs.exclude_files # <<>>
          /\ Len(excludePatterns) > 0

\* The filter threw and the run ended with a comment and no failure.
FilterFailureIsSurvivedWitness ==
    /\ Started("filterThrew")
    /\ Done
    /\ sent = fetched
    /\ sent # <<>>
    /\ Len(comments) = 1
    /\ ~failed

\* The exclude_files inputs 'a,,b', 'a, ' and 'a,'.
InputsWithEmptyPart ==
    {<<"a", ",", ",", "b">>, <<"a", ",", " ">>, <<"a", ",">>}

\* The pattern list has the empty pattern.
ListsEmpty(patterns) == \E k \in 1..Len(patterns) : patterns[k] = <<>>

\* C20: the driver's split and trim turn 'a,,b', 'a, ' and a trailing comma
\* into a list with the empty pattern, and a call of the filter with a list
\* that has the empty pattern excludes every section that has a path,
\* whatever else the list has.
EmptyPatternExcludesAll ==
    /\ \A e \in InputsWithEmptyPart : ListsEmpty(processExcludePatterns(e))
    /\ (Called /\ ListsEmpty(excludePatterns)) =>
          /\ ~result.threw
          /\ \A i \in 1..NumSections : HasPath(InSegments[i + 1]) => Excluded(i)

\* The empty pattern listed after one that matches nothing: both sections of
\* the diff are excluded.
EmptyPatternExcludesAllWitness ==
    /\ Called
    /\ Len(excludePatterns) = 2
    /\ excludePatterns[1] = PatParen
    /\ excludePatterns[2] = <<>>
    /\ NumSections = 2
    /\ \A i \in 1..2 : HasPath(InSegments[i + 1]) /\ Excluded(i)

-----------------------------------------------------------------------------
(* The numeric attempt against a star rating on the line of 'Score'.       *)

\* The ratings the analyses carry, with the first run of digits of each
\* number read as an integer.
RatingLeads ==
    {[n |-> <<"3", ".", "5">>, lead |-> 3, value |-> 70],
     [n |-> <<"4">>, lead |-> 4, value |-> 80],
     [n |-> <<"9">>, lead |-> 9, value |-> 180],
     [n |-> <<"4", ".", "3", "3">>, lead |-> 4, value |-> 87]}

\* The rating '[n/5 STAR' or '[n/5STAR' is written at position p of s.
RatingAt(s, p, n) ==
    \/ StartsAt(s, <<"[">> \o n \o <<"/", "5", STAR>>, p)
    \/ StartsAt(s, <<"[">> \o n \o <<"/", "5", " ", STAR>>, p)

\* The word at position i is followed on its line by the rating of n.
RatingOnLineAfter(s, i, n) ==
    \E p \in (i + 5)..Len(s) :
        /\ RatingAt(s, p, n)
        /\ \A h \in (i + 5)..p : s[h] \notin {"\n", "\r"}

\* The same with no digit between the word and the rating.
RatingNextOnLineAfter(s, i, n) ==
    \E p \in (i + 5)..Len(s) :
        /\ RatingAt(s, p, n)
        /\ \A h \in (i + 5)..p : s[h] \notin {"\n", "\r"} /\ ~IsDigit(s[h])

\* C21 as stated: when the word 'Score' is followed on its line by a star
\* rating, extractScore returns the leading digits of the rating's number as
\* an integer; the rescaled value is returned only when no digit follows any
\* 'Score' before the end of its line.
RatingOnScoreLineReadRaw ==
    Extracted =>
        \A r \in RatingLeads :
            /\ (\E i \in 1..Len(analysis) :
                    IsScoreWord(analysis, i) /\ RatingOnLineAfter(analysis, i, r.n))
               => score = Score(r.lead)
            /\ (RatingIn(analysis, r.n) /\ score = Score(r.value))
               => ScoreThenDigitsOnLine(analysis) = {}

\* C21: when the first 'Score' that has a digit after it on its line is
\* followed on that line, with no digit in between, by a star rating whose
\* number starts with a digit, extractScore returns the leading digits of
\* that number as an integer and not the rescaled value; with digits after a
\* 'Score' on its line the result is the value of those digits, never the
\* rating rescaled.
RatingNextOnScoreLineReadRaw ==
    Extracted =>
        \A r \in RatingLeads :
            /\ (/\ ScoreThenDigitsOnLine(analysis) # {}
                /\ RatingNextOnLineAfter(analysis,
                                         MinOf(ScoreThenDigitsOnLine(analysis)), r.n))
               => (score = Score(r.lead) /\ score # Score(r.value))
            /\ (RatingIn(analysis, r.n) /\ ScoreThenDigitsOnLine(analysis) # {})
               => score = Score(RunValue(analysis,
                            MinOf(DigitsOnLineAfter(analysis,
                                    MinOf(ScoreThenDigitsOnLine(analysis))))))

\* 'Score:  [4/5STAR]' is read as 4.
RatingNextOnScoreLineReadRawWitness ==
    /\ Extracted
    /\ \E i \in 1..Len(analysis) :
          IsScoreWord(analysis, i) /\ RatingNextOnLineAfter(analysis, i, <<"4">>)
    /\ score = Score(4)

====
